---- MODULE Spec2Model ----
(***************************************************************************)
(* Feature extractors of lc_classifier / late_classifier: the band-aware   *)
(* extractors' per-band computation (harmonics, SN parametric model,       *)
(* turbo-fats), the SN model's two-stage fit, and the compute entry point  *)
(* with its schema validation.                                             *)
(***************************************************************************)
EXTENDS Integers, Sequences, FiniteSets, TLC

VARIABLES
    extractor,    \* the extractor whose per-band computation runs
    detections,   \* oid -> summary of that object's rows of the input table
    shared_data,  \* kwargs['shared_data'] of the call
    periods,      \* HarmonicsExtractor: the local variable periods
    todo,         \* object ids the loop / groupby.apply has not reached yet
    pc,           \* worker -> position inside the per-object function
    cur,          \* worker -> object id being processed
    arg,          \* worker -> (times, targets, obs_errors) passed to fit
    attempts,     \* worker -> ftol of every curve_fit call of the current fit
    pout,         \* worker -> local variable pout of fit
    ret,          \* worker -> value returned by fit (chi_per_degree)
    parameters,   \* SNModelScipy.parameters of the extractor's one sn_model
    features,     \* rows produced so far, in production order
    status,       \* "running" | "returned" | "raised"
    exc,          \* the exception that left the computation, if any
    log,          \* logging calls made so far
    ncalls,       \* direct calls of SNModelScipy.fit made so far
    ref,          \* a remembered earlier call of fit (input and result)
    last,         \* the most recent completed call of fit
    sch,          \* compute entry point: extractor, table columns, outcome
    hfit,         \* harmonic coefficients of one regression and what is reported
    prep,         \* DetectionsPreprocessorZTF.preprocess: table and position
    bnd           \* SNModelScipy.fit: parameter bounds and initial guess

vars == <<extractor, detections, shared_data, periods, todo, pc, cur, arg,
          attempts, pout, ret, parameters, features, status, exc, log,
          ncalls, ref, last, sch, hfit, prep, bnd>>

batchVars == <<extractor, detections, shared_data, periods, todo, features,
               status, exc, log>>
fitVars == <<pc, cur, arg, attempts, pout, ret, parameters>>
callVars == <<ncalls, ref, last>>
auxVars == <<sch, hfit, prep, bnd>>

(***************************************************************************)
(* Bounds of the model.                                                    *)
(***************************************************************************)
MaxObjects == 2     \* objects in one input table
MaxObs == 7         \* observations of one object in the requested band
MaxCalls == 3       \* direct calls of fit on one model instance
NumWorkers == 2     \* concurrent workers sharing one extractor instance

(***************************************************************************)
(* Program constants.                                                      *)
(***************************************************************************)
NParams == 6        \* len(pout)
n_harmonics == 7    \* HarmonicsExtractor.n_harmonics
TightDiv == 20      \* ftol = A_guess / 20.
LooseDiv == 3       \* ftol = A_guess / 3.

Max(a, b) == IF a >= b THEN a ELSE b
Min(a, b) == IF a <= b THEN a ELSE b

(***************************************************************************)
(* Feature values: a float is NaN or the exact ratio num/den.              *)
(***************************************************************************)
NaN == [nan |-> TRUE, num |-> 0, den |-> 1]
Num(n) == [nan |-> FALSE, num |-> n, den |-> 1]
Quot(v, d) == IF v.nan THEN NaN ELSE [nan |-> FALSE, num |-> v.num, den |-> v.den * d]

None == [kind |-> "None", vals |-> <<>>]

(***************************************************************************)
(* Declared feature names.                                                 *)
(***************************************************************************)
SPMKeys == <<"SPM_A", "SPM_t0", "SPM_gamma", "SPM_beta", "SPM_tau_rise",
             "SPM_tau_fall", "SPM_chi">>

HarmonicsKeys ==
    [i \in 1..n_harmonics |-> <<"Harmonics_mag", i>>]
    \o [i \in 1..(n_harmonics - 1) |-> <<"Harmonics_phase", i + 1>>]
    \o << <<"Harmonics_mse", 0>> >>

TurboFatsKeys ==
    <<"Amplitude", "AndersonDarling", "Autocor_length", "Beyond1Std", "Con",
      "Eta_e", "Gskew", "MaxSlope", "Mean", "Meanvariance", "MedianAbsDev",
      "MedianBRP", "PairSlopeTrend", "PercentAmplitude", "Q31", "Rcs", "Skew",
      "SmallKurtosis", "Std", "StetsonK", "Pvar", "ExcessVar", "GP_DRW_sigma",
      "GP_DRW_tau", "SF_ML_amplitude", "SF_ML_gamma", "IAR_phi", "LinearTrend">>

SNExtractors == {"SNParametricModelExtractor", "SPMExtractorPhaseII"}
BandExtractors == SNExtractors \cup {"HarmonicsExtractor", "TurboFatsFeatureExtractor"}

get_features_keys(e) ==
    IF e \in SNExtractors THEN SPMKeys
    ELSE IF e = "HarmonicsExtractor" THEN HarmonicsKeys
    ELSE TurboFatsKeys

\* FeatureExtractorSingleBand.nan_series_in_band / FeatureExtractor.nan_df
nan_series_in_band(e) == [i \in 1..Len(get_features_keys(e)) |-> NaN]

(***************************************************************************)
(* Input tables.  An object's rows are summarised by                       *)
(*   nOk    rows of the requested band with time, brightness, uncertainty  *)
(*   nNull  rows of the requested band with one of the three missing       *)
(*   other  whether it has rows of another band                            *)
(*   peak   the largest flux among the nOk rows                            *)
(*   conv   the loosest-needed tolerance at which the optimizer converges  *)
(*   lin    whether the harmonic regression runs through ("ok") or a step  *)
(*          of it raises ("raises")                                        *)
(***************************************************************************)
Peaks == {-15, 0, 15}
Convs == {"tight", "loose", "never"}
Counts == {0, 1, MaxObs}

Objects(e) ==
    {o \in [nOk : Counts, nNull : 0..1, other : BOOLEAN, peak : Peaks,
            conv : Convs, lin : {"ok", "raises"}] :
        /\ o.nOk + o.nNull > 0 \/ o.other
        /\ e \in SNExtractors /\ o.nOk > 0 => o.lin = "ok"
        /\ ~(e \in SNExtractors /\ o.nOk > 0) => o.peak = 15 /\ o.conv = "tight"
        /\ e = "SNParametricModelExtractor" => o.peak > 0
        /\ o.peak <= 0 => o.conv = "never"
        /\ e = "HarmonicsExtractor" /\ o.nOk + o.nNull > 0 => o.nNull = 0
        /\ ~(e = "HarmonicsExtractor" /\ o.nOk + o.nNull > 0) => o.lin = "ok"
        /\ e = "TurboFatsFeatureExtractor" => o.nNull = 0 /\ o.nOk \in {0, 1}}

Oids == 1..MaxObjects

SharedDatas ==
    {[given |-> FALSE, keys |-> {}, period |-> {}],
     [given |-> TRUE, keys |-> {}, period |-> {}]}
    \cup {[given |-> TRUE, keys |-> {"period"}, period |-> s] : s \in SUBSET Oids}

\* variant: tests that the object has rows at all, whatever their band
band_in_fid_any_band(o) == o.nOk + o.nNull > 0 \/ o.other

\* band in oid_detections.fid.values
band_in_fid(o) == o.nOk + o.nNull > 0

\* len(oid_band_detections.dropna())
dropna(o) == o.nOk

\* the arrays handed to fit
LightCurve(o) == [n |-> dropna(o), peak |-> o.peak, conv |-> o.conv]

LightCurves ==
    {lc \in [n : 1..MaxObs, peak : Peaks, conv : Convs] :
        lc.peak <= 0 => lc.conv = "never"}

(***************************************************************************)
(* SNModelScipy.fit                                                        *)
(***************************************************************************)
A_bounds(lc) == <<lc.peak \div 3, lc.peak * 3>>

A_guess(lc) == Max(A_bounds(lc)[2], Max(A_bounds(lc)[1], (12 * lc.peak) \div 10))

\* ftol as the exact ratio A_guess / d
ftol(lc, d) == <<A_guess(lc), d>>

\* variant: the optimizer is started from the previous fit when there is one,
\* and then converges at the tight tolerance where it otherwise would not
curve_fit_warm_start(lc, d) ==
    IF lc.peak \div 3 >= lc.peak * 3 THEN [ok |-> FALSE, pout |-> None]
    ELSE IF lc.conv = "never" THEN [ok |-> FALSE, pout |-> None]
    ELSE IF lc.conv = "loose" /\ d = TightDiv /\ parameters.kind # "ndarray"
         THEN [ok |-> FALSE, pout |-> None]
    ELSE [ok |-> TRUE,
          pout |-> [kind |-> "ndarray",
                    vals |-> [i \in 1..NParams |->
                        Num(1000 * lc.n + 100 * (IF lc.conv = "tight" THEN 1 ELSE 2)
                            + 10 * (IF d = TightDiv THEN 1 ELSE 2) + i)]]]

\* curve_fit: scipy rejects bounds with lower >= upper (ValueError); else the
\* optimizer converges or not (RuntimeError) as the data and ftol decide.
\* The fitted parameters are a function of the arrays and of ftol.
Fitted(lc, d) ==
    [kind |-> "ndarray",
     vals |-> [i \in 1..NParams |->
                 Num(1000 * lc.n + 100 * (IF lc.conv = "tight" THEN 1 ELSE 2)
                     + 10 * (IF d = TightDiv THEN 1 ELSE 2) + i)]]

curve_fit(lc, d) ==
    IF A_bounds(lc)[1] >= A_bounds(lc)[2] THEN [ok |-> FALSE, pout |-> None]
    ELSE IF lc.conv = "never" THEN [ok |-> FALSE, pout |-> None]
    ELSE IF lc.conv = "loose" /\ d = TightDiv THEN [ok |-> FALSE, pout |-> None]
    ELSE [ok |-> TRUE, pout |-> Fitted(lc, d)]

NaNList == [kind |-> "list", vals |-> [i \in 1..NParams |-> NaN]]

\* np.sum((predictions - targets) ** 2 / (obs_errors + 0.01) ** 2)
chi(p, lc) ==
    IF \E i \in 1..Len(p.vals) : p.vals[i].nan THEN NaN
    ELSE Num(p.vals[1].num + lc.n + lc.peak)

chi_den(p, lc) == lc.n - Len(p.vals)

\* variant: the degrees of freedom are tested with >= 0
chi_per_degree_zero_dof(p, lc) ==
    IF chi_den(p, lc) >= 0 THEN Quot(chi(p, lc), chi_den(p, lc)) ELSE NaN

chi_per_degree(p, lc) ==
    IF chi_den(p, lc) >= 1 THEN Quot(chi(p, lc), chi_den(p, lc)) ELSE NaN

Workers == DOMAIN pc

\* variant: the second curve_fit call is made whatever the first one did
FitTight_always_retry(w) ==
    /\ status = "running"
    /\ pc[w] = "fit"
    /\ attempts' = [attempts EXCEPT ![w] = <<ftol(arg[w], TightDiv)>>]
    /\ pc' = [pc EXCEPT ![w] = "retry"]
    /\ UNCHANGED <<cur, arg, pout, ret, parameters>>
    /\ UNCHANGED batchVars
    /\ UNCHANGED callVars
    /\ UNCHANGED auxVars

\* first curve_fit call of fit (lines 65-75)
FitTight(w) ==
    /\ status = "running"
    /\ pc[w] = "fit"
    /\ LET r == curve_fit(arg[w], TightDiv) IN
        /\ attempts' = [attempts EXCEPT ![w] = <<ftol(arg[w], TightDiv)>>]
        /\ IF r.ok
           THEN /\ pout' = [pout EXCEPT ![w] = r.pout]
                /\ pc' = [pc EXCEPT ![w] = "assign"]
           ELSE /\ pout' = pout
                /\ pc' = [pc EXCEPT ![w] = "retry"]
    /\ UNCHANGED <<cur, arg, ret, parameters>>
    /\ UNCHANGED batchVars
    /\ UNCHANGED callVars
    /\ UNCHANGED auxVars

\* second curve_fit call of fit, in the except branch (lines 76-88)
FitLoose(w) ==
    /\ status = "running"
    /\ pc[w] = "retry"
    /\ LET r == curve_fit(arg[w], LooseDiv) IN
        /\ attempts' = [attempts EXCEPT ![w] = Append(@, ftol(arg[w], LooseDiv))]
        /\ pout' = [pout EXCEPT ![w] = IF r.ok THEN r.pout ELSE NaNList]
        /\ pc' = [pc EXCEPT ![w] = "assign"]
    /\ UNCHANGED <<cur, arg, ret, parameters>>
    /\ UNCHANGED batchVars
    /\ UNCHANGED callVars
    /\ UNCHANGED auxVars

\* self.parameters = pout (line 90)
FitAssign(w) ==
    /\ status = "running"
    /\ pc[w] = "assign"
    /\ parameters' = pout[w]
    /\ pc' = [pc EXCEPT ![w] = "chi"]
    /\ UNCHANGED <<cur, arg, attempts, pout, ret>>
    /\ UNCHANGED batchVars
    /\ UNCHANGED callVars
    /\ UNCHANGED auxVars

\* predictions from self.parameters, chi, chi_den, return (lines 91-109)
FitChi(w) ==
    /\ status = "running"
    /\ pc[w] = "chi"
    /\ ret' = [ret EXCEPT ![w] = chi_per_degree(parameters, arg[w])]
    /\ pc' = [pc EXCEPT ![w] = "fitted"]
    /\ UNCHANGED <<cur, arg, attempts, pout, parameters>>
    /\ UNCHANGED batchVars
    /\ UNCHANGED callVars
    /\ UNCHANGED auxVars

(***************************************************************************)
(* SN extractors: aux_function applied to every group                      *)
(***************************************************************************)
Raise(type, oid) ==
    /\ status' = "raised"
    /\ exc' = [type |-> type, oid |-> oid]

LogEntry(level, what, oid) == [level |-> level, what |-> what, oid |-> oid]

\* aux_function up to the call of fit (lines 150-171 / 219-236)
SNBegin(w) ==
    /\ extractor \in SNExtractors
    /\ status = "running"
    /\ pc[w] = "idle"
    /\ todo # <<>>
    /\ LET oid == Head(todo)
           o == detections[oid] IN
        /\ todo' = Tail(todo)
        /\ IF ~band_in_fid(o)
           THEN /\ log' = Append(log, LogEntry("debug", "missing_band", oid))
                /\ features' = Append(features,
                                 [oid |-> oid, row |-> nan_series_in_band(extractor)])
                /\ UNCHANGED <<pc, cur, arg, status, exc>>
           ELSE IF dropna(o) = 0
           THEN \* np.min(times) of an empty array
                /\ Raise("ValueError", oid)
                /\ UNCHANGED <<pc, cur, arg, features, log>>
           ELSE /\ pc' = [pc EXCEPT ![w] = "fit"]
                /\ cur' = [cur EXCEPT ![w] = oid]
                /\ arg' = [arg EXCEPT ![w] = LightCurve(o)]
                /\ UNCHANGED <<features, status, exc, log>>
    /\ UNCHANGED <<extractor, detections, shared_data, periods>>
    /\ UNCHANGED <<attempts, pout, ret, parameters>>
    /\ UNCHANGED callVars
    /\ UNCHANGED auxVars

\* SNModelScipy.get_model_parameters: self.parameters.tolist()
get_model_parameters(p) ==
    IF p.kind = "ndarray" THEN [ok |-> TRUE, vals |-> p.vals]
    ELSE [ok |-> FALSE, vals |-> <<>>]

\* aux_function after fit returned (lines 173-181 / 238-246)
SNCollect(w) ==
    /\ extractor \in SNExtractors
    /\ status = "running"
    /\ pc[w] = "fitted"
    /\ LET g == get_model_parameters(parameters) IN
        IF g.ok
        THEN /\ features' = Append(features,
                              [oid |-> cur[w], row |-> Append(g.vals, ret[w])])
             /\ pc' = [pc EXCEPT ![w] = "idle"]
             /\ UNCHANGED <<status, exc>>
        ELSE /\ Raise("AttributeError", cur[w])
             /\ UNCHANGED <<features, pc>>
    /\ UNCHANGED <<extractor, detections, shared_data, periods, todo, log>>
    /\ UNCHANGED <<cur, arg, attempts, pout, ret, parameters>>
    /\ UNCHANGED callVars
    /\ UNCHANGED auxVars

\* the table is assembled and returned (lines 183-185 / 76-80 / 78-80)
Return ==
    /\ extractor \in BandExtractors
    /\ status = "running"
    /\ todo = <<>>
    /\ \A w \in Workers : pc[w] = "idle"
    /\ extractor = "HarmonicsExtractor" => periods.loaded
    /\ status' = "returned"
    /\ UNCHANGED <<extractor, detections, shared_data, periods, todo, features,
                   exc, log>>
    /\ UNCHANGED fitVars
    /\ UNCHANGED callVars
    /\ UNCHANGED auxVars

(***************************************************************************)
(* HarmonicsExtractor.compute_feature_in_one_band                          *)
(***************************************************************************)
\* PeriodExtractor().compute_features(detections): one row per object
PeriodExtractor(dets) == DOMAIN dets

\* variant: only the presence of shared_data is tested, so
\* kwargs['shared_data']['period'] raises KeyError when the key is absent
HarmonicsPeriods_no_key_test ==
    /\ extractor = "HarmonicsExtractor"
    /\ status = "running"
    /\ ~periods.loaded
    /\ IF shared_data.given /\ "period" \in shared_data.keys
       THEN /\ periods' = [loaded |-> TRUE, src |-> "shared_data",
                           rows |-> shared_data.period]
            /\ UNCHANGED <<log, status, exc>>
       ELSE IF shared_data.given
       THEN /\ status' = "raised"
            /\ exc' = [type |-> "KeyError", oid |-> 0]
            /\ UNCHANGED <<log, periods>>
       ELSE /\ log' = Append(log, [level |-> "info", what |-> "periodogram", oid |-> 0])
            /\ periods' = [loaded |-> TRUE, src |-> "PeriodExtractor",
                           rows |-> PeriodExtractor(detections)]
            /\ UNCHANGED <<status, exc>>
    /\ UNCHANGED <<extractor, detections, shared_data, todo, features>>
    /\ UNCHANGED fitVars
    /\ UNCHANGED callVars
    /\ UNCHANGED auxVars

\* where the periods come from (lines 16-23)
HarmonicsPeriods ==
    /\ extractor = "HarmonicsExtractor"
    /\ status = "running"
    /\ ~periods.loaded
    /\ IF shared_data.given /\ "period" \in shared_data.keys
       THEN /\ periods' = [loaded |-> TRUE, src |-> "shared_data",
                           rows |-> shared_data.period]
            /\ log' = log
       ELSE /\ log' = Append(log, LogEntry("info", "periodogram", 0))
            /\ periods' = [loaded |-> TRUE, src |-> "PeriodExtractor",
                           rows |-> PeriodExtractor(detections)]
    /\ UNCHANGED <<extractor, detections, shared_data, todo, features, status, exc>>
    /\ UNCHANGED fitVars
    /\ UNCHANGED callVars
    /\ UNCHANGED auxVars

\* coef_mag, coef_phi[1:], mse of a regression that ran through (lines 56-69)
\* variant: the fundamental's own relative phase is not dropped (no [1:])
HarmonicsFit_all_phases(o) ==
    [i \in 1..n_harmonics |-> Num(100 * o.nOk + i)]
    \o [i \in 1..n_harmonics |-> Num(100 * o.nOk + 10 + i)]
    \o <<Num(100 * o.nOk + 20)>>

HarmonicsFit(o) ==
    [i \in 1..n_harmonics |-> Num(100 * o.nOk + i)]
    \o [i \in 1..(n_harmonics - 1) |-> Num(100 * o.nOk + 10 + i)]
    \o <<Num(100 * o.nOk + 20)>>

\* variant: the try block is missing, so a failed period lookup or a failed
\* regression leaves the loop
HarmonicsObject_uncaught ==
    /\ extractor = "HarmonicsExtractor"
    /\ status = "running"
    /\ periods.loaded
    /\ todo # <<>>
    /\ LET oid == Head(todo)
           o == detections[oid]
           nans == [i \in 1..Len(get_features_keys(extractor)) |-> NaN] IN
        /\ todo' = Tail(todo)
        /\ IF ~band_in_fid(o)
           THEN /\ log' = Append(log, LogEntry("info", "missing_band", oid))
                /\ features' = Append(features, [oid |-> oid, row |-> nans])
                /\ UNCHANGED <<status, exc>>
           ELSE IF oid \notin periods.rows \/ o.lin = "raises"
           THEN /\ Raise("KeyError", oid)
                /\ UNCHANGED <<features, log>>
           ELSE /\ features' = Append(features, [oid |-> oid, row |-> HarmonicsFit(o)])
                /\ UNCHANGED <<log, status, exc>>
    /\ UNCHANGED <<extractor, detections, shared_data, periods>>
    /\ UNCHANGED fitVars
    /\ UNCHANGED callVars
    /\ UNCHANGED auxVars

\* one iteration of the loop over oids (lines 27-74)
HarmonicsObject ==
    /\ extractor = "HarmonicsExtractor"
    /\ status = "running"
    /\ periods.loaded
    /\ todo # <<>>
    /\ LET oid == Head(todo)
           o == detections[oid]
           nans == [i \in 1..Len(get_features_keys(extractor)) |-> NaN] IN
        /\ todo' = Tail(todo)
        /\ IF ~band_in_fid(o)
           THEN /\ log' = Append(log, LogEntry("info", "missing_band", oid))
                /\ features' = Append(features, [oid |-> oid, row |-> nans])
           ELSE IF oid \notin periods.rows \/ o.lin = "raises"
           THEN \* except Exception
                /\ log' = Append(log, LogEntry("error", "period_not_available", oid))
                /\ features' = Append(features, [oid |-> oid, row |-> nans])
           ELSE /\ features' = Append(features, [oid |-> oid, row |-> HarmonicsFit(o)])
                /\ log' = log
    /\ UNCHANGED <<extractor, detections, shared_data, periods, status, exc>>
    /\ UNCHANGED fitVars
    /\ UNCHANGED callVars
    /\ UNCHANGED auxVars

(***************************************************************************)
(* TurboFatsFeatureExtractor.compute_feature_in_one_band                   *)
(***************************************************************************)
\* self.feature_space.calculate_features(oid_band_detections)
calculate_features(o) == [i \in 1..Len(TurboFatsKeys) |-> Num(100 * o.nOk + i)]

\* one iteration of the loop over oids (lines 59-77)
TurboFatsObject ==
    /\ extractor = "TurboFatsFeatureExtractor"
    /\ status = "running"
    /\ todo # <<>>
    /\ LET oid == Head(todo)
           o == detections[oid] IN
        /\ todo' = Tail(todo)
        /\ IF ~band_in_fid(o)
           THEN /\ log' = Append(log, LogEntry("info", "missing_band", oid))
                /\ features' = Append(features,
                                 [oid |-> oid, row |-> nan_series_in_band(extractor)])
           ELSE /\ features' = Append(features,
                                 [oid |-> oid, row |-> calculate_features(o)])
                /\ log' = log
    /\ UNCHANGED <<extractor, detections, shared_data, periods, status, exc>>
    /\ UNCHANGED fitVars
    /\ UNCHANGED callVars
    /\ UNCHANGED auxVars

(***************************************************************************)
(* Direct calls of SNModelScipy.fit on one model instance                  *)
(***************************************************************************)
NoCall == [set |-> FALSE, input |-> [n |-> 0, peak |-> 0, conv |-> "never"],
           before |-> "None", attempts |-> <<>>, parameters |-> None, chi |-> NaN]

\* fit(times, targets, obs_errors) is entered
CallFit(w, lc) ==
    /\ extractor = "SNModelScipy"
    /\ pc[w] = "idle"
    /\ ncalls < MaxCalls
    /\ ncalls' = ncalls + 1
    /\ pc' = [pc EXCEPT ![w] = "fit"]
    /\ arg' = [arg EXCEPT ![w] = lc]
    /\ UNCHANGED <<cur, attempts, pout, ret, parameters, ref, last>>
    /\ UNCHANGED batchVars
    /\ UNCHANGED auxVars

\* fit returned; the caller keeps what it got (remember chooses whether this
\* call becomes the remembered one)
FitReturn(w, remember) ==
    /\ extractor = "SNModelScipy"
    /\ pc[w] = "fitted"
    /\ LET c == [set |-> TRUE, input |-> arg[w], before |-> last.parameters.kind,
                 attempts |-> attempts[w], parameters |-> parameters,
                 chi |-> ret[w]] IN
        /\ last' = c
        /\ ref' = IF remember /\ ~ref.set THEN c ELSE ref
    /\ pc' = [pc EXCEPT ![w] = "idle"]
    /\ UNCHANGED <<cur, arg, attempts, pout, ret, parameters, ncalls>>
    /\ UNCHANGED batchVars
    /\ UNCHANGED auxVars

(***************************************************************************)
(* Specifications                                                          *)
(***************************************************************************)
NoHfit == [done |-> FALSE, coeffs |-> <<>>, coef_mag |-> <<>>, coef_phi |-> <<>>]

NoPrep == [stage |-> "none", columns |-> {}, index |-> "oid", input |-> <<>>,
           table |-> <<>>, error |-> "none"]

NoBnd == [stage |-> "none", peak |-> 0, tmax |-> 0, tpeak |-> 0,
          bounds |-> <<>>, p0 |-> <<>>]

NoSch == [extractor |-> "none", columns |-> {}, error |-> "none",
          computed |-> FALSE, done |-> FALSE]

InitWorkers(ws) ==
    /\ pc = [w \in ws |-> "idle"]
    /\ cur = [w \in ws |-> 0]
    /\ arg = [w \in ws |-> NoCall.input]
    /\ attempts = [w \in ws |-> <<>>]
    /\ pout = [w \in ws |-> None]
    /\ ret = [w \in ws |-> NaN]
    /\ parameters = None

InitBatch(es, plain) ==
    /\ extractor \in es
    /\ detections \in [Oids -> {o \in Objects(extractor) :
                                  plain => o.nNull = 0 /\ (o.nOk > 0 => ~o.other)}]
    /\ shared_data \in IF extractor = "HarmonicsExtractor" THEN SharedDatas
                       ELSE {[given |-> FALSE, keys |-> {}, period |-> {}]}
    /\ periods = [loaded |-> FALSE, src |-> "none", rows |-> {}]
    /\ todo = [i \in 1..MaxObjects |-> i]
    /\ features = <<>>
    /\ status = "running"
    /\ exc = [type |-> "none", oid |-> 0]
    /\ log = <<>>
    /\ ncalls = 0
    /\ ref = NoCall
    /\ last = NoCall
    /\ sch = NoSch
    /\ hfit = NoHfit
    /\ prep = NoPrep
    /\ bnd = NoBnd

\* one per-band computation of a band-aware extractor, objects in turn
Init ==
    /\ InitBatch(BandExtractors, FALSE)
    /\ InitWorkers({1})

Next ==
    \/ \E w \in Workers : SNBegin(w)
    \/ \E w \in Workers : FitTight(w)
    \/ \E w \in Workers : FitLoose(w)
    \/ \E w \in Workers : FitAssign(w)
    \/ \E w \in Workers : FitChi(w)
    \/ \E w \in Workers : SNCollect(w)
    \/ HarmonicsPeriods
    \/ HarmonicsObject
    \/ TurboFatsObject
    \/ Return

Spec == Init /\ [][Next]_vars

\* the objects of one SN extractor instance spread over concurrent workers
InitConc ==
    /\ InitBatch(SNExtractors, TRUE)
    /\ InitWorkers(1..NumWorkers)

NextConc ==
    \/ \E w \in Workers : SNBegin(w)
    \/ \E w \in Workers : FitTight(w)
    \/ \E w \in Workers : FitLoose(w)
    \/ \E w \in Workers : FitAssign(w)
    \/ \E w \in Workers : FitChi(w)
    \/ \E w \in Workers : SNCollect(w)
    \/ Return

SpecConc == InitConc /\ [][NextConc]_vars

\* a sequence of direct calls of fit on one SNModelScipy
InitFit ==
    /\ extractor = "SNModelScipy"
    /\ detections = <<>>
    /\ shared_data = [given |-> FALSE, keys |-> {}, period |-> {}]
    /\ periods = [loaded |-> FALSE, src |-> "none", rows |-> {}]
    /\ todo = <<>>
    /\ features = <<>>
    /\ status = "running"
    /\ exc = [type |-> "none", oid |-> 0]
    /\ log = <<>>
    /\ ncalls = 0
    /\ ref = NoCall
    /\ last = NoCall
    /\ sch = NoSch
    /\ hfit = NoHfit
    /\ prep = NoPrep
    /\ bnd = NoBnd
    /\ InitWorkers({1})

NextFit ==
    \/ \E w \in Workers, lc \in LightCurves : CallFit(w, lc)
    \/ \E w \in Workers : FitTight(w)
    \/ \E w \in Workers : FitLoose(w)
    \/ \E w \in Workers : FitAssign(w)
    \/ \E w \in Workers : FitChi(w)
    \/ \E w \in Workers, remember \in BOOLEAN : FitReturn(w, remember)

SpecFit == InitFit /\ [][NextFit]_vars

(***************************************************************************)
(* The compute entry point and its schema validation                       *)
(***************************************************************************)
Columns == {"mjd", "fid", "magpsf", "sigmapsf", "diff_flux", "diff_err",
            "magpsf_ml", "sigmapsf_ml", "magpsf_corr", "sgscore1", "ra", "dec"}

\* extractors that leave compute_features to the base class
BaseComputed == BandExtractors \cup {"GalacticCoordinatesExtractor",
                                     "SGScoreExtractor", "StreamSGScoreExtractor"}

get_required_keys(e) ==
    IF e = "SNParametricModelExtractor" THEN {"mjd", "magpsf", "sigmapsf", "fid"}
    ELSE IF e = "SPMExtractorPhaseII" THEN {"mjd", "diff_flux", "diff_err", "fid"}
    ELSE IF e \in {"HarmonicsExtractor", "TurboFatsFeatureExtractor"}
         THEN {"mjd", "magpsf_ml", "fid", "sigmapsf_ml"}
    ELSE IF e = "GalacticCoordinatesExtractor" THEN {"ra", "dec"}
    ELSE IF e = "SGScoreExtractor" THEN {"sgscore1"}
    ELSE {}

\* the columns ColorFeatureComputer.compute_features reads (lines 22-23)
ColorColumns == {"fid", "magpsf_corr"}

\* FeatureExtractor.compute_features of the base class: validate, then compute
compute_features(e) ==
    /\ ~sch.done
    /\ e \in BaseComputed
    /\ sch' = LET cols == sch.columns IN
              IF get_required_keys(e) \subseteq cols
              THEN [extractor |-> e, columns |-> cols, error |-> "none",
                    computed |-> TRUE, done |-> TRUE]
              ELSE [extractor |-> e, columns |-> cols, error |-> "SchemaError",
                    computed |-> FALSE, done |-> TRUE]
    /\ UNCHANGED batchVars
    /\ UNCHANGED fitVars
    /\ UNCHANGED callVars
    /\ UNCHANGED <<hfit, prep, bnd>>

\* ColorFeatureComputer.compute_features: its own entry point (lines 10-29)
ColorComputeFeatures ==
    /\ ~sch.done
    /\ sch' = LET cols == sch.columns IN
              IF "fid" \notin cols
              THEN \* detections.fid
                   [extractor |-> "ColorFeatureComputer", columns |-> cols,
                    error |-> "AttributeError", computed |-> FALSE, done |-> TRUE]
              ELSE IF "magpsf_corr" \notin cols
              THEN \* detections[detections.fid == 1]['magpsf_corr']
                   [extractor |-> "ColorFeatureComputer", columns |-> cols,
                    error |-> "KeyError", computed |-> TRUE, done |-> TRUE]
              ELSE [extractor |-> "ColorFeatureComputer", columns |-> cols,
                    error |-> "none", computed |-> TRUE, done |-> TRUE]
    /\ UNCHANGED batchVars
    /\ UNCHANGED fitVars
    /\ UNCHANGED callVars
    /\ UNCHANGED <<hfit, prep, bnd>>

\* one call of an extractor's compute entry point on a table
InitSchema ==
    /\ extractor = "none"
    /\ detections = <<>>
    /\ shared_data = [given |-> FALSE, keys |-> {}, period |-> {}]
    /\ periods = [loaded |-> FALSE, src |-> "none", rows |-> {}]
    /\ todo = <<>>
    /\ features = <<>>
    /\ status = "running"
    /\ exc = [type |-> "none", oid |-> 0]
    /\ log = <<>>
    /\ ncalls = 0
    /\ ref = NoCall
    /\ last = NoCall
    /\ sch \in {[NoSch EXCEPT !.columns = c] : c \in SUBSET Columns}
    /\ hfit = NoHfit
    /\ prep = NoPrep
    /\ bnd = NoBnd
    /\ InitWorkers({1})

NextSchema ==
    \/ \E e \in BaseComputed : compute_features(e)
    \/ ColorComputeFeatures

SpecSchema == InitSchema /\ [][NextSchema]_vars

(***************************************************************************)
(* Properties                                                              *)
(***************************************************************************)
AllNaN(row) == \A i \in 1..Len(row) : row[i].nan
NoNaN(row) == \A i \in 1..Len(row) : ~row[i].nan
RowsOf(oid) == {i \in 1..Len(features) : features[i].oid = oid}
Reached(oid) == \A i \in 1..Len(todo) : todo[i] # oid
LacksBand(oid) == detections[oid].nOk = 0 /\ detections[oid].nNull = 0
Logged(level, what, oid) ==
    \E i \in 1..Len(log) :
        log[i].level = level /\ log[i].what = what /\ log[i].oid = oid

\* C1: an object with no detection in the requested band gets, from every
\* band-aware extractor, a row of the declared length whose values are all
\* NaN, and its computation raises nothing.
C1_MissingBandContract ==
    extractor \in BandExtractors =>
        \A oid \in DOMAIN detections :
            LacksBand(oid) =>
                /\ exc.oid # oid
                /\ Reached(oid) => RowsOf(oid) # {}
                /\ \A i \in RowsOf(oid) :
                       /\ Len(features[i].row) = Len(get_features_keys(extractor))
                       /\ AllNaN(features[i].row)

C1_Witness ==
    /\ status = "returned"
    /\ \E i, j \in 1..Len(features) :
           /\ LacksBand(features[i].oid)
           /\ AllNaN(features[i].row)
           /\ ~AllNaN(features[j].row)

\* C2: when the per-band computation of a band-aware extractor is over, and
\* every object took the success, the missing-band or the fit-failure path,
\* a table was returned that has exactly one row per object of the input.
C2_Completeness ==
    (/\ extractor \in BandExtractors
     /\ status # "running"
     /\ \A oid \in DOMAIN detections : LacksBand(oid) \/ detections[oid].nOk > 0)
    => /\ status = "returned"
       /\ Len(features) = MaxObjects
       /\ \A oid \in DOMAIN detections : Cardinality(RowsOf(oid)) = 1

\* C3: the SN extractors never let an exception out of the per-object
\* function, and the row of an object with insufficient or invalid data
\* (no row left after dropna, or a non-positive peak flux) is all NaN.
C3_BatchAlwaysCompletes ==
    extractor \in SNExtractors =>
        /\ status # "raised"
        /\ \A oid \in DOMAIN detections :
               (detections[oid].nOk = 0 \/ detections[oid].peak <= 0) =>
                   /\ Reached(oid) /\ (\A w \in Workers : pc[w] = "idle")
                          => RowsOf(oid) # {}
                   /\ \A i \in RowsOf(oid) : AllNaN(features[i].row)

\* C4: a compute call on a table that lacks a column the extractor needs
\* ends in a schema error, raised before anything is computed.
C4_SchemaValidation ==
    LET needed == IF sch.extractor = "ColorFeatureComputer" THEN ColorColumns
                  ELSE get_required_keys(sch.extractor) IN
    sch.done /\ ~(needed \subseteq sch.columns) =>
        sch.error = "SchemaError" /\ ~sch.computed

\* C5: fit tries the tight tolerance first, the loose one only after the
\* tight attempt failed and only once; the parameters are those of the first
\* attempt that succeeded, and are six NaN exactly when both attempts failed.
C5_TwoStageFallback ==
    /\ \A w \in Workers :
           pc[w] \in {"retry", "assign", "chi", "fitted"} =>
               /\ Len(attempts[w]) \in {1, 2}
               /\ attempts[w][1] = <<A_guess(arg[w]), 20>>
               /\ pc[w] = "retry" => Len(attempts[w]) = 1
               /\ Len(attempts[w]) = 2 =>
                      /\ attempts[w][2] = <<A_guess(arg[w]), 3>>
                      /\ ~curve_fit(arg[w], TightDiv).ok
    /\ last.set =>
           LET t == curve_fit(last.input, TightDiv)
               l == curve_fit(last.input, LooseDiv) IN
           /\ Len(last.parameters.vals) = 6
           /\ AllNaN(last.parameters.vals) \/ NoNaN(last.parameters.vals)
           /\ t.ok => Len(last.attempts) = 1 /\ last.parameters = t.pout
           /\ ~t.ok /\ l.ok => Len(last.attempts) = 2 /\ last.parameters = l.pout
           /\ ~t.ok /\ ~l.ok => Len(last.attempts) = 2 /\ AllNaN(last.parameters.vals)
           /\ AllNaN(last.parameters.vals) => ~t.ok /\ ~l.ok

C5_Witness ==
    /\ ref.set /\ Len(ref.attempts) = 2 /\ NoNaN(ref.parameters.vals)
    /\ last.set /\ Len(last.attempts) = 2 /\ AllNaN(last.parameters.vals)

\* C6: fit returns NaN as reduced chi-square for fewer than 7 observations
\* and chi / (N - 6) from 7 observations on; it never divides by a number
\* below 1.
C6_ReducedChiSquare ==
    last.set =>
        LET n == last.input.n
            c == chi(last.parameters, last.input) IN
        /\ n < 7 => last.chi = NaN
        /\ n >= 7 => last.chi = Quot(c, n - 6)
        /\ ~last.chi.nan => last.chi.den >= 1

C6_Witness ==
    /\ ref.set /\ ref.input.n = 6 /\ NoNaN(ref.parameters.vals) /\ ref.chi.nan
    /\ last.set /\ last.input.n = 7 /\ ~last.chi.nan /\ last.chi.den = 1

\* the row aux_function produces for an object processed alone
RowAlone(o) ==
    LET lc == LightCurve(o)
        t == curve_fit(lc, TightDiv)
        l == curve_fit(lc, LooseDiv)
        p == IF t.ok THEN t.pout ELSE IF l.ok THEN l.pout ELSE NaNList IN
    Append(p.vals, chi_per_degree(p, lc))

\* C7: whatever the interleaving of the workers, the row of an object is
\* the row the object gets when it is processed alone.
C7_NoSharedMutableState ==
    extractor \in SNExtractors =>
        \A i \in 1..Len(features) :
            detections[features[i].oid].nOk > 0 =>
                features[i].row = RowAlone(detections[features[i].oid])

\* C8: two calls of fit with the same arrays give the same parameters, the
\* same chi-square and the same tolerances, whatever was fitted before or
\* between them; once fit has assigned, self.parameters is this call's pout.
C8_FitDeterminism ==
    /\ ref.set /\ last.set /\ ref.input = last.input =>
           /\ ref.parameters = last.parameters
           /\ ref.chi = last.chi
           /\ ref.attempts = last.attempts
    /\ \A w \in Workers : pc[w] \in {"chi", "fitted"} => parameters = pout[w]

C8_Witness ==
    /\ ref.set /\ last.set
    /\ ncalls = MaxCalls
    /\ ref.input = last.input
    /\ ref.before = "None" /\ last.before = "ndarray"
    /\ \A w \in Workers : pc[w] = "idle"

\* C9: when the shared data carry no "period", HarmonicsExtractor logs the
\* fallback, takes its periods from PeriodExtractor without raising, and
\* every object with data in the band whose regression runs through gets
\* fitted values.
C9_ContextMissingFallback ==
    (/\ extractor = "HarmonicsExtractor"
     /\ ~(shared_data.given /\ "period" \in shared_data.keys))
    => /\ status # "raised"
       /\ periods.loaded =>
              /\ periods.src = "PeriodExtractor"
              /\ Logged("info", "periodogram", 0)
       /\ todo # [i \in 1..MaxObjects |-> i] => periods.loaded
       /\ \A i \in 1..Len(features) :
              LET o == detections[features[i].oid] IN
              o.nOk > 0 /\ o.lin = "ok" => NoNaN(features[i].row)

C9_Witness ==
    /\ extractor = "HarmonicsExtractor"
    /\ ~shared_data.given
    /\ status = "returned"
    /\ \E i \in 1..Len(features) : NoNaN(features[i].row)

\* the period table has a row for the object
PeriodKnown(oid) ==
    shared_data.given /\ "period" \in shared_data.keys => oid \in shared_data.period

\* C10: in HarmonicsExtractor an object whose period lookup fails, or whose
\* regression raises, gets the all-NaN row and an error log entry; nothing is
\* raised, every object gets its one row, and the rows of the other objects
\* are their fitted values.
C10_HarmonicIsolation ==
    extractor = "HarmonicsExtractor" =>
        /\ status # "raised"
        /\ status = "returned" => Len(features) = MaxObjects
        /\ \A oid \in DOMAIN detections :
               LET o == detections[oid] IN
               /\ Reached(oid) => Cardinality(RowsOf(oid)) = 1
               /\ \A i \in RowsOf(oid) :
                      IF o.nOk = 0 THEN AllNaN(features[i].row)
                      ELSE IF ~PeriodKnown(oid) \/ o.lin = "raises"
                      THEN /\ AllNaN(features[i].row)
                           /\ Len(features[i].row) = 14
                           /\ Logged("error", "period_not_available", oid)
                      ELSE features[i].row = HarmonicsFit(o)

C10_Witness ==
    /\ extractor = "HarmonicsExtractor"
    /\ status = "returned"
    /\ Len(features) >= 2
    /\ ~PeriodKnown(features[1].oid)
    /\ detections[features[1].oid].nOk > 0
    /\ AllNaN(features[1].row)
    /\ NoNaN(features[2].row)

(***************************************************************************)
(* HarmonicsExtractor: from the regression coefficients to the reported    *)
(* amplitudes and relative phases (lines 58-65).                           *)
(*                                                                         *)
(* Floats are kept with their finite precision, scaled down: a float is an *)
(* integer number of units with at most MantBits significant bits, and     *)
(* every arithmetic result is rounded to the nearest such number (ties to  *)
(* even), as IEEE arithmetic does with 53 bits.  Angles are in units of    *)
(* 2*pi / TwoPi.                                                           *)
(***************************************************************************)
MantBits == 3       \* significant bits of a float

TwoPi == 96         \* 2 * np.pi
PiUnits == 48       \* np.pi

RECURSIVE Pow2(_)
Pow2(k) == IF k = 0 THEN 1 ELSE 2 * Pow2(k - 1)

\* spacing of the floats around a >= 0
RECURSIVE Ulp(_, _)
Ulp(a, s) == IF a < s * Pow2(MantBits) THEN s ELSE Ulp(a, 2 * s)

RoundPos(a) ==
    LET s == Ulp(a, 1)
        q == a \div s
        r == a % s IN
    IF 2 * r < s THEN q * s
    ELSE IF 2 * r > s THEN (q + 1) * s
    ELSE IF q % 2 = 0 THEN q * s ELSE (q + 1) * s

\* the float nearest to the exact result x
fl(x) == IF x >= 0 THEN RoundPos(x) ELSE 0 - RoundPos(0 - x)

\* <<cos coefficient, sin coefficient>> of one harmonic, as lstsq may return
Coefs == {<<1, 0>>, <<0, 1>>, <<-1, 0>>, <<16, -1>>}

\* np.sqrt: the non-negative root
Sqrt(n) == fl(CHOOSE r \in 0..n : r * r <= n /\ n < (r + 1) * (r + 1))

\* np.arctan2(sin, cos), in [-pi, pi]
arctan2(sn, cs) ==
    IF sn = 0 THEN (IF cs >= 0 THEN 0 ELSE PiUnits)
    ELSE IF cs = 0 THEN (IF sn > 0 THEN PiUnits \div 2 ELSE 0 - (PiUnits \div 2))
    ELSE IF cs = 16 * sn THEN 1           \* atan(1/16) = 0.95 units
    ELSE IF cs = 0 - 16 * sn THEN 0 - 1
    ELSE IF cs = sn THEN (IF sn > 0 THEN PiUnits \div 4 ELSE 0 - 3 * (PiUnits \div 4))
    ELSE (IF sn > 0 THEN 3 * (PiUnits \div 4) ELSE 0 - (PiUnits \div 4))

\* C fmod: the remainder has the sign of a
fmod(a, b) == IF a >= 0 THEN a % b ELSE 0 - ((0 - a) % b)

\* numpy's a % b for floats, b > 0: fmod, then + b when the remainder is
\* negative; the sum is rounded like every float result
np_mod(a, b) ==
    LET m == fmod(a, b) IN
    IF m # 0 /\ m < 0 THEN fl(m + b) ELSE m

\* coef_mag (line 60)
coef_mag(coeffs) ==
    [k \in 1..n_harmonics |->
        Sqrt(coeffs[k][1] * coeffs[k][1] + coeffs[k][2] * coeffs[k][2])]

\* coef_phi after lines 61-65: harmonics 2..N relative to the fundamental
coef_phi(coeffs) ==
    LET phi == [k \in 1..n_harmonics |-> arctan2(coeffs[k][2], coeffs[k][1])]
        rel == [k \in 1..n_harmonics |-> fl(phi[k] - fl(phi[1] * k))] IN
    [k \in 1..(n_harmonics - 1) |-> np_mod(rel[k + 1], TwoPi)]

\* lines 58-65 on the coefficients of one regression
HarmonicsCoefficients ==
    /\ ~hfit.done
    /\ hfit.coeffs # <<>>
    /\ hfit' = [hfit EXCEPT !.done = TRUE,
                            !.coef_mag = coef_mag(hfit.coeffs),
                            !.coef_phi = coef_phi(hfit.coeffs)]
    /\ UNCHANGED batchVars
    /\ UNCHANGED fitVars
    /\ UNCHANGED callVars
    /\ UNCHANGED <<sch, prep, bnd>>

\* one regression with any coefficients
InitHarm ==
    /\ extractor = "HarmonicsExtractor"
    /\ detections = <<>>
    /\ shared_data = [given |-> FALSE, keys |-> {}, period |-> {}]
    /\ periods = [loaded |-> FALSE, src |-> "none", rows |-> {}]
    /\ todo = <<>>
    /\ features = <<>>
    /\ status = "running"
    /\ exc = [type |-> "none", oid |-> 0]
    /\ log = <<>>
    /\ ncalls = 0
    /\ ref = NoCall
    /\ last = NoCall
    /\ sch = NoSch
    /\ hfit \in {[NoHfit EXCEPT !.coeffs = c] : c \in [1..n_harmonics -> Coefs]}
    /\ prep = NoPrep
    /\ bnd = NoBnd
    /\ InitWorkers({1})

NextHarm == HarmonicsCoefficients

SpecHarm == InitHarm /\ [][NextHarm]_vars

\* C11: after a harmonic fit every reported relative phase (harmonics 2..N)
\* is at least 0 and strictly below 2*pi, and every amplitude is at least 0.
C11_HarmonicPhaseInvariant ==
    hfit.done =>
        /\ Len(hfit.coef_phi) = n_harmonics - 1
        /\ \A i \in 1..Len(hfit.coef_phi) :
               0 <= hfit.coef_phi[i] /\ hfit.coef_phi[i] < TwoPi
        /\ \A i \in 1..Len(hfit.coef_mag) : hfit.coef_mag[i] >= 0

\* the feature a value of a HarmonicsExtractor success row was computed as:
\* <<"Harmonics_mag", k>>, <<"Harmonics_phase", k>> or <<"Harmonics_mse", 0>>
ComputedAs(v) ==
    LET t == v.num % 100 IN
    IF t <= n_harmonics THEN <<"Harmonics_mag", t>>
    ELSE IF t < 20 THEN <<"Harmonics_phase", t - 10 + 1>>
    ELSE <<"Harmonics_mse", 0>>

\* C12: the declared feature names depend on the extractor only, and every
\* emitted row has one value per declared name: for HarmonicsExtractor 14
\* values, either all missing or n_harmonics magnitudes, n_harmonics - 1
\* relative phases and the MSE in the declared order; for the SN extractors
\* the 6 parameters plus the chi-square.
C12_StaticFeatureShape ==
    \A i \in 1..Len(features) :
        LET row == features[i].row
            keys == get_features_keys(extractor) IN
        /\ Len(row) = Len(keys)
        /\ extractor \in SNExtractors => Len(row) = NParams + 1
        /\ extractor = "HarmonicsExtractor" =>
               /\ Len(row) = 2 * n_harmonics
               /\ \/ AllNaN(row)
                  \/ \A k \in 1..Len(row) :
                         ~row[k].nan /\ ComputedAs(row[k]) = keys[k]

C12_Witness ==
    /\ extractor = "HarmonicsExtractor"
    /\ status = "returned"
    /\ \E i, j \in 1..Len(features) :
           /\ detections[features[i].oid].nOk > 0
           /\ NoNaN(features[i].row)
           /\ detections[features[j].oid].nOk = 0
           /\ AllNaN(features[j].row)

(***************************************************************************)
(* SNModelScipy.fit: the six parameter bounds and the initial guess        *)
(* (lines 39-62), for any light curve with at least one observation.       *)
(***************************************************************************)
\* peak of the fitted flux; difference fluxes may be zero or negative
FluxPeaks == {-30, -15, 0, 15, 30}

\* times of observation, after times - min(times)
Times == {0, 1, 2, 50, 150, 300}

\* comparison of two numbers kept as ratios with positive denominators
Lt(a, b) == a.num * b.den < b.num * a.den
Le(a, b) == a.num * b.den <= b.num * a.den
VMax(a, b) == IF Lt(a, b) THEN b ELSE a
VMin(a, b) == IF Lt(b, a) THEN b ELSE a

t0_bounds == <<Num(0 - 50), Num(50)>>
gamma_bounds == <<Num(1), Num(100)>>
f_bounds == <<Num(0), Num(1)>>
trise_bounds == <<Num(1), Num(100)>>
tfall_bounds == <<Num(1), Num(100)>>

t0_guess == Num(0 - 5)
gamma_guess(tmax) == VMin(gamma_bounds[2], VMax(gamma_bounds[1], Num(tmax)))
f_guess == Quot(Num(1), 2)
trise_guess(tpeak) ==
    VMin(trise_bounds[2], VMax(trise_bounds[1], Quot(Num(tpeak), 2)))
tfall_guess == Num(40)

\* bounds, one <<lower, upper>> per parameter, in the order of p0
fit_bounds(lc) ==
    << <<Num(A_bounds(lc)[1]), Num(A_bounds(lc)[2])>>, t0_bounds,
       gamma_bounds, f_bounds, trise_bounds, tfall_bounds >>

p0(lc) ==
    <<Num(A_guess(lc)), t0_guess, gamma_guess(lc.tmax), f_guess,
      trise_guess(lc.tpeak), tfall_guess>>

\* fit, lines 39-47: the bounds
FitBounds ==
    /\ bnd.stage = "called"
    /\ bnd' = [bnd EXCEPT !.stage = "bounds", !.bounds = fit_bounds(bnd)]
    /\ UNCHANGED batchVars
    /\ UNCHANGED fitVars
    /\ UNCHANGED callVars
    /\ UNCHANGED <<sch, hfit, prep>>

\* fit, lines 49-62: the guess
FitGuess ==
    /\ bnd.stage = "bounds"
    /\ bnd' = [bnd EXCEPT !.stage = "guess", !.p0 = p0(bnd)]
    /\ UNCHANGED batchVars
    /\ UNCHANGED fitVars
    /\ UNCHANGED callVars
    /\ UNCHANGED <<sch, hfit, prep>>

\* fit is called with any non-empty light curve whose first time is 0
InitBounds ==
    /\ extractor = "SNModelScipy"
    /\ detections = <<>>
    /\ shared_data = [given |-> FALSE, keys |-> {}, period |-> {}]
    /\ periods = [loaded |-> FALSE, src |-> "none", rows |-> {}]
    /\ todo = <<>>
    /\ features = <<>>
    /\ status = "running"
    /\ exc = [type |-> "none", oid |-> 0]
    /\ log = <<>>
    /\ ncalls = 0
    /\ ref = NoCall
    /\ last = NoCall
    /\ sch = NoSch
    /\ hfit = NoHfit
    /\ prep = NoPrep
    /\ \E p \in FluxPeaks, tm \in Times :
           \E tp \in {t \in Times : t <= tm} :
               bnd = [NoBnd EXCEPT !.stage = "called", !.peak = p,
                                   !.tmax = tm, !.tpeak = tp]
    /\ InitWorkers({1})

NextBounds == FitBounds \/ FitGuess

SpecBounds == InitBounds /\ [][NextBounds]_vars

\* C13: in fit, for every non-empty input, each of the six parameters has
\* its lower bound strictly below its upper bound and its initial guess
\* within [lower, upper], whatever the peak flux (zero and negative included).
C13_BoundsAndGuessWellFormed ==
    /\ bnd.stage \in {"bounds", "guess"} =>
           \A i \in 1..NParams : Lt(bnd.bounds[i][1], bnd.bounds[i][2])
    /\ bnd.stage = "guess" =>
           \A i \in 1..NParams :
               /\ Le(bnd.bounds[i][1], bnd.p0[i])
               /\ Le(bnd.p0[i], bnd.bounds[i][2])

(***************************************************************************)
(* DetectionsPreprocessorZTF.preprocess.                                   *)
(*                                                                         *)
(* A cell of the table is a float, a missing value, an infinity, or a      *)
(* string (object column): one that reads as a number, one that reads as   *)
(* an infinity, or one that is not a number.  sigmapsf_corr and rb are in  *)
(* hundredths.  A row carries mjd, sigmapsf_corr and rb; magpsf stands for *)
(* the not-null columns that no later step compares (fid, magpsf,          *)
(* sigmapsf, magpsf_corr, ra, dec, sgscore1).                              *)
(***************************************************************************)
MaxRows == 3        \* rows of the input table

max_sigma == 100    \* self.max_sigma = 1.0
rb_threshold == 55  \* self.rb_threshold = 0.55

not_null_columns ==
    {"mjd", "fid", "magpsf", "sigmapsf", "magpsf_corr", "sigmapsf_corr",
     "ra", "dec", "rb", "sgscore1"}

Float(v) == [kind |-> "float", v |-> v]
Missing == [kind |-> "nan", v |-> 0]
Inf == [kind |-> "inf", v |-> 0]
NotANumber == [kind |-> "str", v |-> 0]         \* such as 'abc'
NumStr(v) == [kind |-> "numstr", v |-> v]       \* such as '1.0'
InfStr == [kind |-> "infstr", v |-> 0]          \* such as 'inf'

Row(o, m, g, sg, r) ==
    [oid |-> o, mjd |-> m, magpsf |-> g, sigmapsf_corr |-> sg, rb |-> r]

\* rows of an input table: valid ones, and ones with one irregular cell
InputRows ==
    {Row(1, Float(1), Float(20), Float(50), Float(55)),
     Row(1, Float(2), Float(20), Float(50), Float(55)),
     Row(2, Float(1), Float(20), Float(50), Float(55))}
    \cup {Row(1, m, Float(20), Float(50), Float(90)) : m \in {NumStr(1), Missing}}
    \cup {Row(1, Float(1), g, Float(50), Float(90)) :
             g \in {Missing, Inf, NotANumber, InfStr}}
    \cup {Row(1, Float(1), Float(20), sg, Float(90)) :
             sg \in {Float(0), Float(max_sigma), Missing}}
    \cup {Row(1, Float(1), Float(20), Float(50), r) :
             r \in {Float(rb_threshold - 1), Missing}}

RECURSIVE Tables(_)
Tables(n) ==
    IF n = 0 THEN {<<>>}
    ELSE Tables(n - 1) \cup {Append(t, r) : t \in Tables(n - 1), r \in InputRows}

\* the rows of t whose position is in keep, in their order
RECURSIVE Retain(_, _, _)
Retain(t, keep, i) ==
    IF i > Len(t) THEN <<>>
    ELSE (IF i \in keep THEN <<t[i]>> ELSE <<>>) \o Retain(t, keep, i + 1)

NotNullCells(r) == {r.mjd, r.magpsf, r.sigmapsf_corr, r.rb}

has_necessary_columns(columns) == not_null_columns \subseteq columns

\* replace([np.inf, -np.inf], np.nan): float infinities only
replace_inf(c) == IF c.kind = "inf" THEN Missing ELSE c

\* line 38 on the not-null cells of a row
replace_inf_row(r) ==
    [r EXCEPT !.mjd = replace_inf(r.mjd), !.magpsf = replace_inf(r.magpsf),
              !.sigmapsf_corr = replace_inf(r.sigmapsf_corr),
              !.rb = replace_inf(r.rb)]

\* notna: a string is not a missing value
notna(c) == c.kind # "nan"

\* pd.to_numeric(errors='coerce')
to_numeric(c) ==
    CASE c.kind = "numstr" -> Float(c.v)
      [] c.kind = "infstr" -> Inf
      [] c.kind = "str" -> Missing
      [] OTHER -> c

\* lines 41-42 on one row
to_numeric_row(r) ==
    [r EXCEPT !.mjd = to_numeric(r.mjd), !.magpsf = to_numeric(r.magpsf),
              !.sigmapsf_corr = to_numeric(r.sigmapsf_corr),
              !.rb = to_numeric(r.rb)]

\* comparisons of a numeric column with a number: False on NaN
CellGt(c, x) == c.kind = "inf" \/ (c.kind = "float" /\ c.v > x)
CellLt(c, x) == c.kind = "float" /\ c.v < x
CellGe(c, x) == c.kind = "inf" \/ (c.kind = "float" /\ c.v >= x)

\* lines 45-55: the first row of every (oid, mjd) is kept
drop_duplicates(t) ==
    Retain(t, {i \in 1..Len(t) :
                  \A j \in 1..(i - 1) :
                      <<t[j].oid, t[j].mjd>> # <<t[i].oid, t[i].mjd>>}, 1)

\* lines 33-43: infinities become missing, rows with a missing not-null
\* cell are dropped, and then the not-null columns are made numeric
discard_invalid_value_detections(t) ==
    LET replaced == [i \in 1..Len(t) |-> replace_inf_row(t[i])]
        valid_alerts == {i \in 1..Len(t) :
                            \A c \in NotNullCells(replaced[i]) : notna(c)}
        kept == Retain(replaced, valid_alerts, 1) IN
    [i \in 1..Len(kept) |-> to_numeric_row(kept[i])]

\* lines 57-65
discard_noisy_detections(t) ==
    Retain(t, {i \in 1..Len(t) :
                  /\ CellGt(t[i].sigmapsf_corr, 0)
                  /\ CellLt(t[i].sigmapsf_corr, max_sigma)}, 1)

\* lines 67-74
discard_bogus(t) ==
    Retain(t, {i \in 1..Len(t) : CellGe(t[i].rb, rb_threshold)}, 1)

\* GenericPreprocessor.verify_dataframe: accepts the table, changes nothing
verify_dataframe(t) == TRUE

PrepUnchanged ==
    /\ UNCHANGED batchVars
    /\ UNCHANGED fitVars
    /\ UNCHANGED callVars
    /\ UNCHANGED <<sch, hfit, bnd>>

\* preprocess, lines 82-84
PreprocessCheck ==
    /\ prep.stage = "called"
    /\ verify_dataframe(prep.table)
    /\ prep' = IF has_necessary_columns(prep.columns)
               THEN [prep EXCEPT !.stage = "checked"]
               ELSE [prep EXCEPT !.stage = "raised", !.error = "Exception"]
    /\ PrepUnchanged

\* preprocess, line 85
PreprocessDropDuplicates ==
    /\ prep.stage = "checked"
    /\ prep' = IF prep.index = "oid"
               THEN [prep EXCEPT !.stage = "deduplicated",
                                 !.table = drop_duplicates(prep.table)]
               ELSE [prep EXCEPT !.stage = "raised", !.error = "AssertionError"]
    /\ PrepUnchanged

\* preprocess, line 86
PreprocessDiscardInvalid ==
    /\ prep.stage = "deduplicated"
    /\ prep' = [prep EXCEPT !.stage = "valid",
                            !.table = discard_invalid_value_detections(prep.table)]
    /\ PrepUnchanged

\* preprocess, line 87
PreprocessDiscardNoisy ==
    /\ prep.stage = "valid"
    /\ prep' = [prep EXCEPT !.stage = "quiet",
                            !.table = discard_noisy_detections(prep.table)]
    /\ PrepUnchanged

\* preprocess, lines 88-89
PreprocessDiscardBogus ==
    /\ prep.stage = "quiet"
    /\ prep' = [prep EXCEPT !.stage = "returned",
                            !.table = discard_bogus(prep.table)]
    /\ PrepUnchanged

\* preprocess is called with any table of at most MaxRows rows
InitPrep ==
    /\ extractor = "DetectionsPreprocessorZTF"
    /\ detections = <<>>
    /\ shared_data = [given |-> FALSE, keys |-> {}, period |-> {}]
    /\ periods = [loaded |-> FALSE, src |-> "none", rows |-> {}]
    /\ todo = <<>>
    /\ features = <<>>
    /\ status = "running"
    /\ exc = [type |-> "none", oid |-> 0]
    /\ log = <<>>
    /\ ncalls = 0
    /\ ref = NoCall
    /\ last = NoCall
    /\ sch = NoSch
    /\ hfit = NoHfit
    /\ bnd = NoBnd
    /\ \E t \in Tables(MaxRows), ix \in {"oid", "candid"},
          cols \in {not_null_columns, not_null_columns \ {"rb"}} :
           prep = [NoPrep EXCEPT !.stage = "called", !.columns = cols,
                                 !.index = ix, !.input = t, !.table = t]
    /\ InitWorkers({1})

NextPrep ==
    \/ PreprocessCheck
    \/ PreprocessDropDuplicates
    \/ PreprocessDiscardInvalid
    \/ PreprocessDiscardNoisy
    \/ PreprocessDiscardBogus

SpecPrep == InitPrep /\ [][NextPrep]_vars

\* C14: the table preprocess returns holds only rows of the input; no two
\* retained rows of one object have the same mjd; every not-null cell is a
\* finite number; 0 < sigmapsf_corr < 1.0 and rb >= 0.55.  A table lacking a
\* necessary column is rejected with an exception before any row is filtered.
C14_PreprocessPostcondition ==
    /\ prep.stage = "returned" =>
           \A i \in 1..Len(prep.table) :
               LET r == prep.table[i] IN
               /\ \E k \in 1..Len(prep.input) : prep.input[k] = r
               /\ \A j \in 1..Len(prep.table) :
                      j # i => <<prep.table[j].oid, prep.table[j].mjd>> # <<r.oid, r.mjd>>
               /\ \A c \in NotNullCells(r) : c.kind = "float"
               /\ 0 < r.sigmapsf_corr.v /\ r.sigmapsf_corr.v < max_sigma
               /\ r.rb.v >= rb_threshold
    /\ ~has_necessary_columns(prep.columns) =>
           /\ prep.stage \in {"called", "raised"}
           /\ prep.table = prep.input
           /\ prep.stage = "raised" => prep.error = "Exception"

====
